---- MODULE Spec2Model ----
(***************************************************************************)
(* Match log of the SSBU match logger: the CSV record store, add_game,     *)
(* get_sessions and the session segmentation passes of backend/app.py,     *)
(* backend/migrate_sessions.py and backend/fix_session_ids_csv.py, and the *)
(* statistics of backend/app.py and app.py computed from the store.        *)
(*                                                                         *)
(* Time is counted in ticks, TicksPerHour of them to the hour; a unix      *)
(* timestamp is a number of ticks.  A session id "YYYY-MM-DD-HH" is the    *)
(* number of the clock hour it names (local time without clock changes).   *)
(* A text value is a sequence of chunks, the chunk " " being white space.  *)
(* None (-1) stands for None / NaN / an empty CSV cell of a numeric or     *)
(* session_id column.  Corrupt (-2) stands for a timestamp cell that holds *)
(* no number; pandas reads it as NaN, which sorts last and compares false. *)
(* A rate is a number of tenths of a percent.                              *)
(* The display column "datetime" is a function of "timestamp" and is left  *)
(* out of the rows.                                                        *)
(***************************************************************************)
EXTENDS Integers, Sequences, FiniteSets, TLC

VARIABLES csv, op, request, result, cli, passes, before, threads

vars == <<csv, op, request, result, cli, passes, before, threads>>

\* ------------------------------------------------------------------ bounds
TicksPerHour == 3
MaxGames == 3
MaxLegacy == 2
MaxRows == 3
MaxPasses == 2
MaxMatches == 3
MaxGroup == 6
MaxHeat == 3

\* --------------------------------------------------------------- constants
None == -1
Corrupt == -2
session_gap_hours == 4
SESSION_GAP_HOURS == 4
MIGRATE_SESSION_GAP_HOURS == 4

\* ----------------------------------------------------------------- threads
\* The requests in flight when two are served at once: where the handler of
\* GET /api/sessions and the handler of POST /api/log_game stand, and what
\* each has read.  No request is in flight otherwise.
NoThreads == [get_sessions |-> [pc |-> "idle"], add_game |-> [pc |-> "idle"]]

\* -------------------------------------------------------------------- text
Empty == <<>>
Blank == <<" ">>
Fox == <<"Fox">>
Falco == <<"Falco">>
Shayne == <<"Shayne">>
Matt == <<"Matt">>
Battlefield == <<"Battlefield">>
NoStage == <<"No", " ", "Stage">>

RECURSIVE lstrip(_)
lstrip(s) ==
    IF s = <<>> THEN s
    ELSE IF Head(s) = " " THEN lstrip(Tail(s)) ELSE s

RECURSIVE rstrip(_)
rstrip(s) ==
    IF s = <<>> THEN s
    ELSE IF s[Len(s)] = " " THEN rstrip(SubSeq(s, 1, Len(s) - 1)) ELSE s

\* str.strip()
strip(s) == rstrip(lstrip(s))

\* ---------------------------------------------------------------- the rows
Row(sc, mc, w, st, stage, ts, sid) ==
    [shayne_character |-> sc, matt_character |-> mc, winner |-> w,
     stocks_remaining |-> st, stage |-> stage, timestamp |-> ts,
     session_id |-> sid]

\* Row a may stand before row b in ascending timestamp order, NaN last.
NotAfter(a, b) ==
    \/ b.timestamp = Corrupt
    \/ a.timestamp # Corrupt /\ a.timestamp <= b.timestamp

\* Stable insertion of row r into rows, ascending by timestamp.
RECURSIVE InsertByTimestamp(_, _)
InsertByTimestamp(rows, r) ==
    IF rows = <<>> THEN <<r>>
    ELSE IF NotAfter(rows[Len(rows)], r) THEN Append(rows, r)
    ELSE Append(InsertByTimestamp(SubSeq(rows, 1, Len(rows) - 1), r),
                rows[Len(rows)])

\* df.sort_values("timestamp"); rows already in ascending order stay as they
\* are.
RECURSIVE sort_values(_)
sort_values(rows) ==
    IF \A i \in 1..(Len(rows) - 1) : NotAfter(rows[i], rows[i + 1])
    THEN rows
    ELSE InsertByTimestamp(sort_values(SubSeq(rows, 1, Len(rows) - 1)),
                           rows[Len(rows)])

\* _load_data: a blank stage reads as "No Stage"; rows with a blank character
\* are filtered out.
HasCharacters(r) == r.shayne_character # Empty /\ r.matt_character # Empty

FillStage(r) == IF r.stage = Empty THEN [r EXCEPT !.stage = NoStage] ELSE r

_load_data(file) ==
    LET filled == [i \in 1..Len(file) |-> FillStage(file[i])]
    IN SelectSeq(filled, HasCharacters)

\* ------------------------------------------------------------- session ids
\* strftime("%Y-%m-%d-%H"): the clock hour the timestamp falls in.
_generate_session_id(timestamp) == timestamp \div TicksPerHour

\* The comparison with >= in place of >: a gap of exactly the threshold would
\* start a session.
GapExceeded_AtLeast(timestamp, last_timestamp) ==
    (timestamp - last_timestamp) >= session_gap_hours * TicksPerHour

\* time_gap_hours > self.session_gap_hours, with
\* time_gap_hours = (timestamp - last_timestamp) / 3600; false for NaN.
GapExceeded(timestamp, last_timestamp) ==
    /\ timestamp # Corrupt
    /\ last_timestamp # Corrupt
    /\ (timestamp - last_timestamp) > session_gap_hours * TicksPerHour

_get_or_create_session_id(file, game_timestamp) ==
    LET df == _load_data(file)
    IN IF Len(df) = 0 THEN _generate_session_id(game_timestamp)
       ELSE LET sorted == sort_values(df)
                last_game == sorted[Len(sorted)]
            IN IF GapExceeded(game_timestamp, last_game.timestamp)
               THEN _generate_session_id(game_timestamp)
               ELSE IF last_game.session_id # None
                    THEN last_game.session_id
                    ELSE _generate_session_id(last_game.timestamp)

\* What the pass is when datetime.fromtimestamp(nan) raises ValueError.
Raised == <<[raised |-> "ValueError"]>>

RECURSIVE AssignMissingFrom(_, _, _, _)
AssignMissingFrom(rows, i, current_session_id, last_timestamp) ==
    IF i > Len(rows) THEN rows
    ELSE LET row == rows[i]
         IN IF row.session_id # None
            THEN AssignMissingFrom(rows, i + 1, row.session_id, row.timestamp)
            ELSE IF last_timestamp = None /\ row.timestamp = Corrupt
            THEN Raised
            ELSE LET sid == IF last_timestamp = None
                            THEN _generate_session_id(row.timestamp)
                            ELSE IF GapExceeded(row.timestamp, last_timestamp)
                                 THEN _generate_session_id(row.timestamp)
                                 ELSE current_session_id
                 IN AssignMissingFrom([rows EXCEPT ![i].session_id = sid],
                                      i + 1, sid, row.timestamp)

\* The pass with its return inside the loop: it stops at the first row it
\* assigns.
RECURSIVE AssignFirstMissingFrom(_, _, _, _)
AssignFirstMissingFrom(rows, i, current_session_id, last_timestamp) ==
    IF i > Len(rows) THEN rows
    ELSE LET row == rows[i]
         IN IF row.session_id # None
            THEN AssignFirstMissingFrom(rows, i + 1, row.session_id, row.timestamp)
            ELSE LET sid == IF last_timestamp = None
                            THEN _generate_session_id(row.timestamp)
                            ELSE IF GapExceeded(row.timestamp, last_timestamp)
                                 THEN _generate_session_id(row.timestamp)
                                 ELSE current_session_id
                 IN [rows EXCEPT ![i].session_id = sid]

assign_missing_returns_early(df) ==
    IF Len(df) = 0 THEN df
    ELSE AssignFirstMissingFrom(sort_values(df), 1, None, None)

\* The pass without its "already has a session_id" branch: every row is
\* assigned afresh.
RECURSIVE AssignAllFrom(_, _, _, _)
AssignAllFrom(rows, i, current_session_id, last_timestamp) ==
    IF i > Len(rows) THEN rows
    ELSE LET row == rows[i]
             sid == IF last_timestamp = None
                    THEN _generate_session_id(row.timestamp)
                    ELSE IF GapExceeded(row.timestamp, last_timestamp)
                         THEN _generate_session_id(row.timestamp)
                         ELSE current_session_id
         IN AssignAllFrom([rows EXCEPT ![i].session_id = sid],
                          i + 1, sid, row.timestamp)

assign_missing_overwrites(df) ==
    IF Len(df) = 0 THEN df
    ELSE AssignAllFrom(sort_values(df), 1, None, None)

_assign_missing_session_ids(df) ==
    IF Len(df) = 0 THEN df
    ELSE AssignMissingFrom(sort_values(df), 1, None, None)

\* get_sessions up to its save: the file it leaves behind.
SavedBySessions(file) ==
    LET df == _load_data(file)
        assigned == _assign_missing_session_ids(df)
    IN IF Len(df) = 0 THEN file
       ELSE IF assigned = Raised THEN file
       ELSE IF \E i \in 1..Len(assigned) : assigned[i].session_id # None
            THEN assigned
            ELSE file

\* ------------------------------------------- backend/fix_session_ids_csv.py
generate_session_id(timestamp) == timestamp \div TicksPerHour

\* time_gap_hours > session_gap_hours, the threshold given in ticks
\* (--gap-hours is a float: any positive number of ticks).
FixGapExceeded(timestamp, last_timestamp, gap_ticks) ==
    (timestamp - last_timestamp) > gap_ticks

RECURSIVE FixAssignFrom(_, _, _, _, _, _)
FixAssignFrom(rows, i, current_session_id, last_timestamp, overwrite, gap_ticks) ==
    IF i > Len(rows) THEN rows
    ELSE LET row == rows[i]
         IN IF ~overwrite /\ row.session_id # None
            THEN FixAssignFrom(rows, i + 1, row.session_id, row.timestamp,
                               overwrite, gap_ticks)
            ELSE LET sid == IF last_timestamp = None
                            THEN generate_session_id(row.timestamp)
                            ELSE IF FixGapExceeded(row.timestamp, last_timestamp,
                                                   gap_ticks)
                                 THEN generate_session_id(row.timestamp)
                                 ELSE current_session_id
                 IN FixAssignFrom([rows EXCEPT ![i].session_id = sid],
                                  i + 1, sid, row.timestamp, overwrite, gap_ticks)

\* re.search(r"(\d+\.?\d*)", ts_str) finds a number.
Parseable(row) == row.timestamp # Corrupt

\* The rows whose timestamp cannot be parsed are skipped on loading and are
\* not written back.
assign_session_ids(file, overwrite, gap_ticks) ==
    LET rows == SelectSeq(file, Parseable)
    IN IF Len(rows) = 0 THEN file
       ELSE FixAssignFrom(sort_values(rows), 1, None, None, overwrite, gap_ticks)

\* --------------------------------------------- backend/migrate_sessions.py
migrate_generate_session_id(timestamp) == timestamp \div TicksPerHour

RECURSIVE MigrateAssignFrom(_, _, _, _)
MigrateAssignFrom(rows, i, current_session_id, last_timestamp) ==
    IF i > Len(rows) THEN rows
    ELSE LET timestamp == rows[i].timestamp
             sid == IF last_timestamp = None
                    THEN migrate_generate_session_id(timestamp)
                    ELSE IF (timestamp - last_timestamp)
                               > MIGRATE_SESSION_GAP_HOURS * TicksPerHour
                         THEN migrate_generate_session_id(timestamp)
                         ELSE current_session_id
         IN MigrateAssignFrom([rows EXCEPT ![i].session_id = sid],
                              i + 1, sid, timestamp)

migrate_assign_session_ids(file) ==
    IF Len(file) = 0 THEN file
    ELSE MigrateAssignFrom(sort_values(file), 1, None, None)

\* ------------------------------------------------------------- submissions
RequiredFields == {"shayneCharacter", "mattCharacter", "winner", "stage"}

Submission(sc, mc, w, st, stage) ==
    [shayneCharacter |-> sc, mattCharacter |-> mc, winner |-> w,
     stocksRemaining |-> st, stage |-> stage]

Without(g, f) == [k \in DOMAIN g \ {f} |-> g[k]]

Submissions ==
    { Submission(Fox, Falco, Shayne, 2, Battlefield),
      Submission(Fox, Falco, Matt, None, Battlefield),
      Submission(Blank, Falco, Shayne, 2, Battlefield),
      Submission(Fox, Falco, Blank, 2, Battlefield),
      Submission(Fox, Empty, Shayne, 2, Battlefield),
      Submission(Fox, Falco, Shayne, 2, Empty),
      Submission(Fox, Falco, Shayne, 2, Blank),
      Without(Submission(Fox, Falco, Shayne, 2, Battlefield), "stage"),
      Without(Submission(Fox, Falco, Shayne, 2, Battlefield), "winner") }

NoRequest == [none |-> TRUE]

\* The required-field loop and the stage check of add_game.
Validates(game_data) ==
    /\ \A field \in RequiredFields :
          field \in DOMAIN game_data /\ game_data[field] # Empty
    /\ strip(game_data["stage"]) # Empty

\* game_data["stocksRemaining"] or None
OrNone(v) == IF v = 0 THEN None ELSE v

new_game(game_data, timestamp, session_id) ==
    Row(game_data["shayneCharacter"], game_data["mattCharacter"],
        game_data["winner"], OrNone(game_data["stocksRemaining"]),
        strip(game_data["stage"]), timestamp, session_id)

\* ------------------------------------------------------------- the clock
\* What the clock may have advanced by since the most recent stored match:
\* exactly the session gap, or one tick more.
Elapsed ==
    { session_gap_hours * TicksPerHour,
      session_gap_hours * TicksPerHour + 1 }

RECURSIVE MaxTimestamp(_)
MaxTimestamp(rows) ==
    IF rows = <<>> THEN 0
    ELSE LET m == MaxTimestamp(Tail(rows))
         IN IF Head(rows).timestamp > m THEN Head(rows).timestamp ELSE m

\* ---------------------------------------------------------- legacy stores
\* Rows written before the session_id column existed (src/app.py), among them
\* rows from before the stage field and rows with missing character data.
LegacyKinds == {"plain", "no_stage", "no_character"}

LegacyRow(kind, ts) ==
    Row(IF kind = "no_character" THEN Empty ELSE Fox, Falco, Shayne, 2,
        IF kind = "no_stage" THEN Empty ELSE Battlefield, ts, None)

RECURSIVE LegacyStores(_)
LegacyStores(n) ==
    IF n = 0 THEN {<<>>}
    ELSE LET S == LegacyStores(n - 1)
         IN S \cup { Append(s, LegacyRow(k, MaxTimestamp(s) + d)) :
                       s \in {x \in S : Len(x) = n - 1},
                       k \in LegacyKinds, d \in Elapsed }

\* ------------------------------------------------- the best/worst lists
min_matchup_games == 3
min_stage_games == 2
min_matrix_games == 5
min_tearsheet_games == 5

\* The values as they stand, repeated ones too.
every_value(values) == values

\* Series.unique(): the values in the order of their first appearance.
RECURSIVE unique(_)
unique(values) ==
    IF values = <<>> THEN <<>>
    ELSE LET rest == unique(SubSeq(values, 1, Len(values) - 1))
             last == values[Len(values)]
         IN IF \E i \in 1..Len(rest) : rest[i] = last THEN rest
            ELSE Append(rest, last)

\* Python's sort is stable: items of equal key keep their order.
RECURSIVE InsertByKey(_, _)
InsertByKey(keyed, k) ==
    IF keyed = <<>> THEN <<k>>
    ELSE IF keyed[Len(keyed)].key <= k.key THEN Append(keyed, k)
    ELSE Append(InsertByKey(SubSeq(keyed, 1, Len(keyed) - 1), k),
                keyed[Len(keyed)])

RECURSIVE SortKeyed(_)
SortKeyed(keyed) ==
    IF keyed = <<>> THEN <<>>
    ELSE InsertByKey(SortKeyed(SubSeq(keyed, 1, Len(keyed) - 1)),
                     keyed[Len(keyed)])

\* sorted(items, key=key, reverse=reverse); with reverse the items of equal
\* key keep their order too.
sorted_by(items, key, reverse) ==
    LET keyed == [i \in 1..Len(items) |->
                    [key |-> IF reverse THEN 0 - items[i][key] ELSE items[i][key],
                     item |-> items[i]]]
        ordered == SortKeyed(keyed)
    IN [i \in 1..Len(ordered) |-> ordered[i].item]

\* items[:n]
first_n(items, n) == IF Len(items) <= n THEN items ELSE SubSeq(items, 1, n)

\* items[-n:]
last_n(items, n) ==
    IF Len(items) <= n THEN items
    ELSE SubSeq(items, Len(items) - n + 1, Len(items))

\* wins / total * 100 not rounded, in millionths of 100 percent: fine enough
\* to keep apart any two different rates of at most 20 games.
percent(wins, total) == IF total > 0 THEN (wins * 1000000) \div total ELSE 0


\* The character names in the order of a sorted groupby index.
CharacterNames == <<Falco, Fox>>

groupby_index(values) ==
    SelectSeq(CharacterNames, LAMBDA c : \E i \in 1..Len(values) : values[i] = c)

\* ---------------------------------------------------------------- actions
DefaultCli == [tool |-> "app", overwrite |-> FALSE, gap |-> session_gap_hours * TicksPerHour]

Init ==
    /\ csv \in LegacyStores(MaxLegacy)
    /\ op = "init"
    /\ request = NoRequest
    /\ result = FALSE
    /\ cli = DefaultCli
    /\ passes = 0
    /\ before = <<>>
    /\ threads = NoThreads

add_game(game_data, timestamp) ==
    /\ op' = "add_game"
    /\ request' = game_data
    /\ before' = csv
    /\ UNCHANGED threads
    /\ UNCHANGED <<cli, passes>>
    /\ IF ~Validates(game_data) \/ "stocksRemaining" \notin DOMAIN game_data
       THEN result' = FALSE /\ csv' = csv
       ELSE LET session_id == _get_or_create_session_id(csv, timestamp)
            IN /\ csv' = Append(_load_data(csv),
                                new_game(game_data, timestamp, session_id))
               /\ result' = TRUE

AddGame ==
    /\ Len(csv) < MaxGames
    /\ \E game_data \in Submissions, d \in Elapsed :
          add_game(game_data, MaxTimestamp(csv) + d)

\* The list get_sessions returns: one entry for each session id of the frame
\* in the order of first appearance, then sorted by start time, most recent
\* first; the empty list for an empty store and after an error.
Sessions(file) ==
    LET df == _load_data(file)
        assigned == _assign_missing_session_ids(df)
        ids == SelectSeq(unique([i \in 1..Len(assigned) |-> assigned[i].session_id]),
                         LAMBDA session_id : session_id # None)
        session_games(session_id) ==
            SelectSeq(sort_values(assigned), LAMBDA row : row.session_id = session_id)
        entry(session_id) ==
            LET games == session_games(session_id)
            IN [session_id |-> session_id,
                start_time |-> games[1].timestamp,
                end_time |-> games[Len(games)].timestamp,
                total_games |-> Len(games),
                shayne_wins |->
                    Cardinality({i \in 1..Len(games) : games[i].winner = Shayne}),
                matt_wins |->
                    Cardinality({i \in 1..Len(games) : games[i].winner = Matt}),
                duration |-> games[Len(games)].timestamp - games[1].timestamp]
    IN IF Len(df) = 0 \/ assigned = Raised THEN <<>>
       ELSE sorted_by([k \in 1..Len(ids) |-> entry(ids[k])],
                      "start_time", TRUE)

\* get_sessions: load, assign the missing session ids, save them back and
\* return the sessions.
get_sessions ==
    /\ op' = "get_sessions"
    /\ before' = csv
    /\ UNCHANGED threads
    /\ csv' = SavedBySessions(csv)
    /\ result' = Sessions(csv)
    /\ UNCHANGED <<request, cli, passes>>

\* backend/fix_session_ids_csv.py run on the store with its defaults: fill the
\* missing ids only, SESSION_GAP_HOURS.
fix_session_ids ==
    /\ op' = "fix"
    /\ before' = csv
    /\ UNCHANGED threads
    /\ csv' = assign_session_ids(csv, FALSE, SESSION_GAP_HOURS * TicksPerHour)
    /\ UNCHANGED <<request, result, cli, passes>>

Next == AddGame \/ get_sessions

Spec == Init /\ [][Next]_vars

\* The app with the script run on its store between its calls.
FillNext == AddGame \/ get_sessions \/ fix_session_ids

SpecFill == Init /\ [][FillNext]_vars

\* ------------------------------------------ the segmentation passes alone
\* A fixed record set, segmented again and again by one tool: get_sessions of
\* the app, backend/migrate_sessions.py, or backend/fix_session_ids_csv.py
\* with its --overwrite and --gap-hours arguments.
SegGaps ==
    { 1, 2,
      session_gap_hours * TicksPerHour,
      session_gap_hours * TicksPerHour + 1 }

FirstTimestamps == {0, TicksPerHour - 1}

PlainRow(ts) == Row(Fox, Falco, Shayne, 2, Battlefield, ts, None)

RECURSIVE PlainStores(_)
PlainStores(n) ==
    IF n = 0 THEN {<<>>}
    ELSE IF n = 1 THEN {<<>>} \cup {<<PlainRow(t)>> : t \in FirstTimestamps}
    ELSE LET S == PlainStores(n - 1)
         IN S \cup { Append(s, PlainRow(MaxTimestamp(s) + d)) :
                       s \in {x \in S : Len(x) = n - 1}, d \in SegGaps }

\* The spec's example: matches at hours 0, 1, 2, 10, 11.
ExampleHours == <<0, 1, 2, 10, 11>>

ExampleStore == [i \in 1..Len(ExampleHours) |-> PlainRow(ExampleHours[i] * TicksPerHour)]

\* A store some of whose rows were segmented before and some not yet.
PartlyAssigned(file, missing) ==
    LET full == migrate_assign_session_ids(file)
    IN [i \in 1..Len(file) |-> IF i \in missing THEN file[i] ELSE full[i]]

SegStores ==
    {ExampleStore} \cup
    { PartlyAssigned(s, m) : s \in PlainStores(MaxRows), m \in SUBSET (1..MaxRows) }

CliOptions ==
    { [tool |-> "app", overwrite |-> FALSE, gap |-> session_gap_hours * TicksPerHour],
      [tool |-> "migrate", overwrite |-> TRUE, gap |-> MIGRATE_SESSION_GAP_HOURS * TicksPerHour] }
    \cup [tool : {"fix"}, overwrite : BOOLEAN, gap : {1, SESSION_GAP_HOURS * TicksPerHour}]

SegInit ==
    /\ csv \in SegStores
    /\ cli \in CliOptions
    /\ op = "init"
    /\ request = NoRequest
    /\ result = FALSE
    /\ passes = 0
    /\ before = <<>>
    /\ threads = NoThreads

Pass(tool, saved) ==
    /\ cli.tool = tool
    /\ passes < MaxPasses
    /\ passes' = passes + 1
    /\ before' = csv
    /\ UNCHANGED threads
    /\ csv' = saved
    /\ op' = tool
    /\ UNCHANGED <<request, result, cli>>

AppPass == Pass("app", SavedBySessions(csv))

MigratePass == Pass("migrate", migrate_assign_session_ids(csv))

FixPass == Pass("fix", assign_session_ids(csv, cli.overwrite, cli.gap))

SegNext == AppPass \/ MigratePass \/ FixPass

SpecSeg == SegInit /\ [][SegNext]_vars

\* ------------------------------------- stores with corrupt timestamps
\* A store some of whose timestamp cells hold no number, segmented by
\* get_sessions of the app or by backend/fix_session_ids_csv.py.
Corrupted(file, cells) ==
    [i \in 1..Len(file) |->
        IF i \in cells THEN [file[i] EXCEPT !.timestamp = Corrupt] ELSE file[i]]

CorruptStores ==
    { Corrupted(PartlyAssigned(s, m), c) :
        s \in PlainStores(MaxRows) \ {<<>>},
        m \in SUBSET (1..MaxRows),
        c \in (SUBSET (1..MaxRows)) \ {{}} }

CorruptInit ==
    /\ csv \in {s \in CorruptStores : \E i \in 1..Len(s) : s[i].timestamp = Corrupt}
    /\ cli \in {c \in CliOptions : c.tool \in {"app", "fix"}}
    /\ op = "init"
    /\ request = NoRequest
    /\ result = FALSE
    /\ passes = 0
    /\ before = <<>>
    /\ threads = NoThreads

CorruptNext == AppPass \/ FixPass

SpecCorrupt == CorruptInit /\ [][CorruptNext]_vars

\* ------------------------------------------- the submissions of the form
\* What POST /log sends on: a winner that is neither player, a stocks value
\* below zero, of zero and of null, and no stocksRemaining key at all.
Luigi == <<"Luigi">>

LoggedSubmissions ==
    { Submission(Fox, Falco, Shayne, 2, Battlefield),
      Submission(Falco, Fox, Matt, None, Battlefield),
      Submission(Fox, Falco, Luigi, 2, Battlefield),
      Submission(Fox, Falco, Shayne, -2, Battlefield),
      Submission(Fox, Falco, Shayne, 0, Battlefield),
      Without(Submission(Fox, Falco, Matt, 2, Battlefield), "stocksRemaining") }

LogGame ==
    /\ Len(csv) < MaxGames
    /\ \E game_data \in LoggedSubmissions, d \in Elapsed :
          add_game(game_data, MaxTimestamp(csv) + d)

LogNext == LogGame

SpecLog == Init /\ [][LogNext]_vars

\* ---------------------------------------------------------- the statistics
\* len(df[df["winner"] == player]) over wins with known stocks only.
Wins_KnownStocks(df, player) ==
    Cardinality({i \in 1..Len(df) :
                   df[i].winner = player /\ df[i].stocks_remaining # None})

\* len(df[df["winner"] == player])
Wins(df, player) == Cardinality({i \in 1..Len(df) : df[i].winner = player})

\* round(wins / total * 100) to a whole percent, in tenths of a percent.
round1_whole(wins, total) == ((wins * 100) \div total) * 10

\* round(wins / total * 100, 1), in tenths of a percent.  Python rounds the
\* float to the nearest tenth and an exact tie to the even tenth; ties need a
\* total that is a multiple of 16, where the float is exact.
round1(wins, total) ==
    LET q == (wins * 1000) \div total
        r == (wins * 1000) % total
    IN IF 2 * r > total \/ (2 * r = total /\ q % 2 = 1) THEN q + 1 ELSE q

NoStreak == [none |-> TRUE]

\* The walk if it stopped after the most recent row.
StreakBack_once(df, i, shayne_streak, matt_streak) ==
    IF i = 0 THEN <<shayne_streak, matt_streak>>
    ELSE IF df[i].winner = Shayne THEN <<1, 0>> ELSE <<0, 1>>

\* The loop of get_stats over reversed(df["winner"]): rows i, i - 1, ... 1.
RECURSIVE StreakBack(_, _, _, _)
StreakBack(df, i, shayne_streak, matt_streak) ==
    IF i = 0 THEN <<shayne_streak, matt_streak>>
    ELSE IF df[i].winner = Shayne
         THEN IF matt_streak > 0 THEN <<shayne_streak, matt_streak>>
              ELSE StreakBack(df, i - 1, shayne_streak + 1, matt_streak)
         ELSE IF shayne_streak > 0 THEN <<shayne_streak, matt_streak>>
              ELSE StreakBack(df, i - 1, shayne_streak, matt_streak + 1)

current_streak(df) ==
    LET sorted == sort_values(df)
        streaks == StreakBack(sorted, Len(sorted), 0, 0)
        shayne_streak == streaks[1]
        matt_streak == streaks[2]
    IN IF shayne_streak > 0 \/ matt_streak > 0
       THEN [player |-> IF shayne_streak > 0 THEN Shayne ELSE Matt,
             length |-> IF shayne_streak > 0 THEN shayne_streak ELSE matt_streak]
       ELSE NoStreak

\* GameDataManager.get_stats of backend/app.py: the counts, the win rates and
\* the current streak.
get_stats(file) ==
    LET df == _load_data(file)
    IN IF Len(df) = 0
       THEN [total_games |-> 0, shayne_wins |-> 0, matt_wins |-> 0,
             shayne_win_rate |-> 0, matt_win_rate |-> 0,
             current_streak |-> NoStreak]
       ELSE [total_games |-> Len(df),
             shayne_wins |-> Wins(df, Shayne),
             matt_wins |-> Wins(df, Matt),
             shayne_win_rate |-> round1(Wins(df, Shayne), Len(df)),
             matt_win_rate |-> round1(Wins(df, Matt), Len(df)),
             current_streak |-> current_streak(df)]

\* len(df[(df["winner"] == player) & (df["stocks_remaining"] == stocks)]);
\* an unknown stocks value (NaN) equals no number.
StockWins(df, player, stocks) ==
    Cardinality({i \in 1..Len(df) :
                   df[i].winner = player /\ df[i].stocks_remaining = stocks})

\* The streak loop of get_user_tearsheet: its variables after the first i rows.
RECURSIVE tearsheet_streaks(_, _, _)
tearsheet_streaks(df, username, i) ==
    IF i = 0
    THEN [current_streak |-> 0, current_streak_type |-> "None",
          temp_win_streak |-> 0, max_win_streak |-> 0]
    ELSE LET s == tearsheet_streaks(df, username, i - 1)
         IN IF df[i].winner = username
            THEN LET temp == IF s.current_streak_type = "loss" THEN 1
                             ELSE s.temp_win_streak + 1
                 IN [current_streak |-> IF s.current_streak_type = "loss" THEN 1
                                        ELSE s.current_streak + 1,
                     current_streak_type |-> "win",
                     temp_win_streak |-> temp,
                     max_win_streak |-> IF temp > s.max_win_streak THEN temp
                                        ELSE s.max_win_streak]
            ELSE [current_streak |-> IF s.current_streak_type = "win" THEN 1
                                     ELSE s.current_streak + 1,
                  current_streak_type |-> "loss",
                  temp_win_streak |-> 0,
                  max_win_streak |-> s.max_win_streak]

\* The streak loop of get_user_stats: its variables after the first i rows.
RECURSIVE user_stats_streaks(_, _, _)
user_stats_streaks(df, username, i) ==
    IF i = 0
    THEN [current_streak |-> 0, current_streak_type |-> "None",
          max_streak |-> 0, max_streak_type |-> "None"]
    ELSE LET s == user_stats_streaks(df, username, i - 1)
             type == IF df[i].winner = username THEN "win" ELSE "loss"
             current == IF s.current_streak_type = type
                           \/ s.current_streak_type = "None"
                        THEN s.current_streak + 1
                        ELSE 1
         IN [current_streak |-> current,
             current_streak_type |-> type,
             max_streak |-> IF current > s.max_streak THEN current
                            ELSE s.max_streak,
             max_streak_type |-> IF current > s.max_streak THEN type
                                 ELSE s.max_streak_type]

\* GET /api/users/<username>/stats: the totals and the streaks, over the rows
\* of the file as pd.read_csv gives them, sorted by time.
get_user_stats(file, username) ==
    LET df == sort_values(file)
        streaks == user_stats_streaks(df, username, Len(df))
        user_wins == Cardinality({i \in 1..Len(df) : df[i].winner = username})
    IN [totalGames |-> Len(df),
        overallWinRate |-> percent(user_wins, Len(df)),
        currentStreak |-> [count |-> streaks.current_streak,
                           type |-> streaks.current_streak_type],
        maxStreak |-> [count |-> streaks.max_streak,
                       type |-> streaks.max_streak_type]]

\* The test if any opponent character that was met qualified.
tearsheet_qualifies_any(games) == games >= 1

\* games >= 5 of the matchup_stats.
tearsheet_qualifies(games) == games >= min_tearsheet_games

\* The matchup_stats of get_user_tearsheet before they are sorted: one entry
\* for each opponent character with enough games, in groupby order.
tearsheet_matchup_stats(df, username) ==
    LET opponent(row) == IF username = Shayne THEN row.matt_character
                         ELSE row.shayne_character
        chars == groupby_index([i \in 1..Len(df) |-> opponent(df[i])])
        games(char) == Cardinality({i \in 1..Len(df) : opponent(df[i]) = char})
        wins(char) == Cardinality({i \in 1..Len(df) :
                                     opponent(df[i]) = char /\ df[i].winner = username})
        entries == [c \in 1..Len(chars) |->
                      [opponent_character |-> chars[c],
                       games |-> games(chars[c]),
                       wins |-> wins(chars[c]),
                       losses |-> games(chars[c]) - wins(chars[c]),
                       win_rate |-> round1(wins(chars[c]), games(chars[c]))]]
    IN SelectSeq(entries, LAMBDA e : tearsheet_qualifies(e.games))

\* GET /api/users/<username>/tearsheet: overall_stats, streaks, dominance and
\* the best and worst matchups.
get_user_tearsheet(file, username) ==
    LET loaded == _load_data(file)
    IN IF Len(loaded) = 0 THEN [success |-> FALSE]
       ELSE LET df == sort_values(loaded)
                total_games == Len(df)
                user_wins == Wins(df, username)
                two_stock_wins == StockWins(df, username, 2)
            IN [success |-> TRUE,
                total_games |-> total_games,
                wins |-> user_wins,
                losses |-> total_games - user_wins,
                win_rate |-> round1(user_wins, total_games),
                max_win_streak |->
                    tearsheet_streaks(df, username, Len(df)).max_win_streak,
                three_stock_wins |-> StockWins(df, username, 3),
                two_stock_wins |-> two_stock_wins,
                two_stock_rate |-> IF user_wins > 0
                                   THEN round1(two_stock_wins, user_wins)
                                   ELSE 0,
                current_streak |->
                    [count |-> tearsheet_streaks(df, username, Len(df)).current_streak,
                     type |-> tearsheet_streaks(df, username, Len(df)).current_streak_type],
                best_matchups |->
                    first_n(sorted_by(tearsheet_matchup_stats(df, username),
                                   "win_rate", TRUE), 5),
                worst_matchups |->
                    first_n(sorted_by(sorted_by(tearsheet_matchup_stats(df, username),
                                          "win_rate", TRUE),
                                   "win_rate", FALSE), 5)]

\* GameDataManager._load_data of src/app.py: a blank stage reads as
\* "No Stage"; no row is filtered out.
legacy_load_data(file) == [i \in 1..Len(file) |-> FillStage(file[i])]

\* GameDataManager.get_stats of src/app.py: {} for an empty store, and a
\* current_streak entry whenever there is a row.
legacy_get_stats(file) ==
    LET df == legacy_load_data(file)
    IN IF Len(df) = 0 THEN [empty |-> TRUE]
       ELSE LET sorted == sort_values(df)
                streaks == StreakBack(sorted, Len(sorted), 0, 0)
                shayne_streak == streaks[1]
                matt_streak == streaks[2]
            IN [total_games |-> Len(df),
                shayne_wins |-> Wins(df, Shayne),
                matt_wins |-> Wins(df, Matt),
                shayne_win_rate |-> round1(Wins(df, Shayne), Len(df)),
                matt_win_rate |-> round1(Wins(df, Matt), Len(df)),
                current_streak |->
                    [player |-> IF shayne_streak > 0 THEN Shayne ELSE Matt,
                     length |-> IF shayne_streak > 0 THEN shayne_streak
                                ELSE matt_streak]]

\* for player in ["Shayne", "Matt"]
Players == {Shayne, Matt}

\* f"{shayne_char}_vs_{matt_char}"
matchup_key(row) == row.shayne_character \o <<"_vs_">> \o row.matt_character

\* The wins counted for Matt in an entry if only a winner "Matt" counted.
entry_matt_wins_named(df, rows) ==
    Cardinality({i \in rows : df[i].winner = Matt})

\* The else branch of the winner test: every winner but "Shayne" counts for
\* Matt.
entry_matt_wins(df, rows) ==
    Cardinality({i \in rows : df[i].winner # Shayne})

\* m["total_games"] >= 5 of qualified_matchups.
matrix_qualifies(total_games) == total_games >= min_matrix_games

\* GET /api/matchup_matrix: the matrix, one entry for each key, the list of
\* the entries by games played, and the best and worst matchups.
get_matchup_matrix(file) ==
    LET df == _load_data(file)
        keys == {matchup_key(df[i]) : i \in 1..Len(df)}
        entry(key) ==
            LET rows == {i \in 1..Len(df) : matchup_key(df[i]) = key}
                first == CHOOSE i \in rows : \A j \in rows : i <= j
                total_games == Cardinality(rows)
                shayne_wins == Cardinality({i \in rows : df[i].winner = Shayne})
                matt_wins == entry_matt_wins(df, rows)
            IN [shayne_character |-> df[first].shayne_character,
                matt_character |-> df[first].matt_character,
                total_games |-> total_games,
                shayne_wins |-> shayne_wins,
                matt_wins |-> matt_wins,
                shayne_win_rate |-> round1(shayne_wins, total_games),
                matt_win_rate |-> round1(matt_wins, total_games)]
        items == unique([i \in 1..Len(df) |-> matchup_key(df[i])])
        matchup_list == sorted_by([k \in 1..Len(items) |-> entry(items[k])],
                                  "total_games", TRUE)
        qualified_matchups ==
            SelectSeq(matchup_list, LAMBDA m : matrix_qualifies(m.total_games))
    IN IF Len(df) = 0 THEN [success |-> FALSE]
       ELSE [success |-> TRUE,
             matrix |-> [key \in keys |-> entry(key)],
             top_matchups |-> first_n(matchup_list, 20),
             best_matchups |->
                 [shayne |-> first_n(sorted_by(qualified_matchups,
                                 "shayne_win_rate", TRUE), 10),
                  matt |-> first_n(sorted_by(qualified_matchups,
                                 "matt_win_rate", TRUE), 10)],
             worst_matchups |->
                 [shayne |-> first_n(sorted_by(qualified_matchups,
                                 "shayne_win_rate", FALSE), 10),
                  matt |-> first_n(sorted_by(qualified_matchups,
                                 "matt_win_rate", FALSE), 10)]]

\* total >= 3 of get_matchup_stats.
matchup_qualifies(total) == total >= min_matchup_games

\* total >= 2 of the stage performance.
stage_qualifies(total) == total >= min_stage_games

\* get_matchup_stats of get_character_stats: the games of one player with the
\* character, grouped by the opponent's character.
get_matchup_stats(character, df, is_shayne_char) ==
    LET games == SelectSeq(df, LAMBDA row :
                     IF is_shayne_char THEN row.shayne_character = character
                     ELSE row.matt_character = character)
        char_col(row) == IF is_shayne_char THEN row.matt_character
                         ELSE row.shayne_character
        win_condition(row) == row.winner = (IF is_shayne_char THEN Shayne ELSE Matt)
        opponents == unique([i \in 1..Len(games) |-> char_col(games[i])])
        total(opponent) ==
            Cardinality({i \in 1..Len(games) : char_col(games[i]) = opponent})
        wins(opponent) ==
            Cardinality({i \in 1..Len(games) : /\ char_col(games[i]) = opponent
                                               /\ win_condition(games[i])})
        matchups == [o \in 1..Len(opponents) |->
                       [opponent |-> opponents[o],
                        games |-> total(opponents[o]),
                        wins |-> wins(opponents[o]),
                        losses |-> total(opponents[o]) - wins(opponents[o]),
                        win_rate |-> percent(wins(opponents[o]), total(opponents[o]))]]
    IN sorted_by(SelectSeq(matchups, LAMBDA m : matchup_qualifies(m.games)),
                 "win_rate", TRUE)

\* The loop over shayne_matchups + matt_matchups that fills all_matchups, after
\* n of the matchups; a dict keeps its keys in the order of their insertion.
RECURSIVE all_matchups(_, _)
all_matchups(matchups, n) ==
    IF n = 0 THEN <<>>
    ELSE LET all == all_matchups(matchups, n - 1)
             matchup == matchups[n]
             seen == {j \in 1..Len(all) : all[j].opponent = matchup.opponent}
         IN IF seen = {} THEN Append(all, matchup)
            ELSE [j \in 1..Len(all) |->
                    IF j \in seen
                    THEN [all[j] EXCEPT !.games = @ + matchup.games,
                                        !.wins = @ + matchup.wins,
                                        !.losses = @ + matchup.losses]
                    ELSE all[j]]

\* GET /api/characters/<character>/stats: the matchups and the stages.
get_character_stats(file, character) ==
    LET df == _load_data(file)
        character_games == SelectSeq(df, LAMBDA row :
                               \/ row.shayne_character = character
                               \/ row.matt_character = character)
        both == get_matchup_stats(character, df, TRUE)
                    \o get_matchup_stats(character, df, FALSE)
        combined == all_matchups(both, Len(both))
        recalculated == [j \in 1..Len(combined) |->
                           [combined[j] EXCEPT !.win_rate =
                               percent(combined[j].wins, combined[j].games)]]
        sorted_matchups == sorted_by(recalculated, "win_rate", TRUE)
        stages == unique([i \in 1..Len(character_games) |-> character_games[i].stage])
        stage_games(stage) ==
            {i \in 1..Len(character_games) : character_games[i].stage = stage}
        stage_wins(stage) ==
            Cardinality({i \in stage_games(stage) :
                \/ /\ character_games[i].shayne_character = character
                   /\ character_games[i].winner = Shayne
                \/ /\ character_games[i].matt_character = character
                   /\ character_games[i].winner = Matt})
        stage_performance ==
            [k \in 1..Len(stages) |->
               [stage |-> stages[k],
                games |-> Cardinality(stage_games(stages[k])),
                wins |-> stage_wins(stages[k]),
                win_rate |-> percent(stage_wins(stages[k]),
                                     Cardinality(stage_games(stages[k])))]]
    IN IF Len(df) = 0 THEN [success |-> FALSE]
       ELSE IF Len(character_games) = 0
       THEN [success |-> TRUE, total_games |-> 0, best_matchups |-> <<>>,
             worst_matchups |-> <<>>, stage_performance |-> <<>>]
       ELSE [success |-> TRUE,
             total_games |-> Len(character_games),
             best_matchups |-> first_n(sorted_matchups, 5),
             worst_matchups |-> last_n(sorted_matchups, 5),
             stage_performance |->
                 sorted_by(SelectSeq(stage_performance,
                                     LAMBDA e : stage_qualifies(e.games)),
                           "win_rate", TRUE)]

\* prev_winner is not None, as if it held at the first row too.
has_prev_winner_always(i) == TRUE

\* prev_winner is not None: at every row but the first.
has_prev_winner(i) == i > 1

\* The momentum loop of get_advanced_metrics for a player: its counters after
\* the first i rows.  Empty stands for the prev_winner None.
RECURSIVE momentum_scan(_, _, _)
momentum_scan(df, player, i) ==
    IF i = 0
    THEN [wins_after_win |-> 0, games_after_win |-> 0,
          wins_after_loss |-> 0, games_after_loss |-> 0]
    ELSE LET m == momentum_scan(df, player, i - 1)
             prev_winner == IF i = 1 THEN Empty ELSE df[i - 1].winner
             current_winner == df[i].winner
             won == IF current_winner = player THEN 1 ELSE 0
         IN IF ~has_prev_winner(i) THEN m
            ELSE IF prev_winner = player
            THEN [m EXCEPT !.games_after_win = @ + 1, !.wins_after_win = @ + won]
            ELSE [m EXCEPT !.games_after_loss = @ + 1, !.wins_after_loss = @ + won]

\* GET /api/advanced_metrics: two_stock_wins, dominance_factor and
\* momentum_analysis.
get_advanced_metrics(file) ==
    LET df == sort_values(_load_data(file))
        total_games == Len(df)
        rate(count, total) == IF total > 0 THEN round1(count, total) ELSE 0
        momentum(player) == momentum_scan(df, player, Len(df))
    IN IF Len(df) = 0 THEN [success |-> FALSE]
       ELSE [success |-> TRUE,
             two_stock_wins |->
                [player \in Players |->
                    [two_stock_wins |-> StockWins(df, player, 2),
                     total_wins |-> Wins(df, player),
                     two_stock_rate |-> rate(StockWins(df, player, 2),
                                             Wins(df, player)),
                     of_all_games |-> rate(StockWins(df, player, 2),
                                           total_games)]],
             dominance_factor |->
                [player \in Players |->
                    [three_stock_wins |-> StockWins(df, player, 3),
                     total_wins |-> Wins(df, player),
                     dominance_rate |-> rate(StockWins(df, player, 3),
                                             Wins(df, player)),
                     of_all_games |-> rate(StockWins(df, player, 3),
                                           total_games)]],
             momentum_analysis |->
                [player \in Players |->
                    [win_after_win |-> rate(momentum(player).wins_after_win,
                                            momentum(player).games_after_win),
                     win_after_loss |-> rate(momentum(player).wins_after_loss,
                                             momentum(player).games_after_loss)]]]

\* The streak loop of get_head_to_head_stats: its variables after the first i
\* rows.  Empty stands for the player None; key_error is the KeyError of
\* longest_win_streaks[prev_player] for a player that is not a key.
RECURSIVE head_to_head_streaks(_, _)
head_to_head_streaks(df, i) ==
    IF i = 0
    THEN [current_streak_player |-> Empty, current_streak_length |-> 0,
          temp_player |-> Empty, temp_length |-> 0,
          longest_win_streaks |-> [player \in Players |-> 0],
          key_error |-> FALSE]
    ELSE LET s == head_to_head_streaks(df, i - 1)
             winner == df[i].winner
             current == IF s.current_streak_player = winner
                        THEN s.current_streak_length + 1 ELSE 1
         IN IF s.key_error THEN s
            ELSE IF s.temp_player = winner
            THEN [s EXCEPT !.current_streak_player = winner,
                           !.current_streak_length = current,
                           !.temp_length = @ + 1]
            ELSE IF s.temp_player # Empty /\ s.temp_length > 0
                    /\ s.temp_player \notin Players
            THEN [s EXCEPT !.key_error = TRUE]
            ELSE [current_streak_player |-> winner,
                  current_streak_length |-> current,
                  temp_player |-> winner, temp_length |-> 1,
                  longest_win_streaks |->
                     IF s.temp_player # Empty /\ s.temp_length > 0
                        /\ s.temp_length > s.longest_win_streaks[s.temp_player]
                     THEN [s.longest_win_streaks
                              EXCEPT ![s.temp_player] = s.temp_length]
                     ELSE s.longest_win_streaks,
                  key_error |-> FALSE]

\* The loop without the "Check final streak" step after it.
longest_win_streaks_of_closed_runs(df) == head_to_head_streaks(df, Len(df))

\* The loop and the "Check final streak" step after it.
longest_win_streaks(df) ==
    LET s == head_to_head_streaks(df, Len(df))
    IN IF s.key_error THEN s
       ELSE IF s.temp_player = Empty THEN s
       ELSE IF s.temp_player \notin Players THEN [s EXCEPT !.key_error = TRUE]
       ELSE IF s.temp_length > s.longest_win_streaks[s.temp_player]
       THEN [s EXCEPT !.longest_win_streaks[s.temp_player] = s.temp_length]
       ELSE s

\* GET /api/head_to_head_stats: the streaks; an exception is answered with
\* success false and status 500.
get_head_to_head_stats(file) ==
    LET loaded == _load_data(file)
        s == longest_win_streaks(sort_values(loaded))
    IN IF Len(loaded) = 0 THEN [success |-> FALSE]
       ELSE IF s.key_error THEN [success |-> FALSE]
       ELSE [success |-> TRUE,
             current_streak |-> [player |-> s.current_streak_player,
                                 length |-> s.current_streak_length],
             longest_win_streaks |-> s.longest_win_streaks]

\* ------------------------------------------------- the win-rate timeline
max_games == 2000
window_games == 20

\* df.tail(n) with no limit n.
tail_all(df, n) == df

\* df.tail(n)
tail(df, n) == IF Len(df) <= n THEN df ELSE SubSeq(df, Len(df) - n + 1, Len(df))

\* GameDataManager.get_user_win_rate_timeline: windows of 20 games over the
\* last 2000 games.
get_user_win_rate_timeline(file, username) ==
    LET df == _load_data(file)
        recent_games == tail(sort_values(df), max_games)
        num_windows == Len(recent_games) \div window_games
        window(i) == SubSeq(recent_games, (i - 1) * window_games + 1,
                            (i - 1) * window_games + window_games)
    IN IF Len(df) = 0
       THEN [success |-> FALSE, message |-> "No data available"]
       ELSE IF Len(recent_games) < window_games
       THEN [success |-> FALSE,
             message |-> "Not enough games (need at least 20)"]
       ELSE [success |-> TRUE,
             game_numbers |-> [i \in 1..num_windows |-> i],
             win_rates |-> [i \in 1..num_windows |->
                              round1(Wins(window(i), username), window_games)],
             total_games |-> Len(df),
             windows |-> num_windows]

\* ------------------------------------------------------------ the heatmap
\* The datetime column holds the wall-clock time of the timestamp; tick 0 is
\* a Monday at midnight.  dt.dayofweek counts from Monday = 0.
dayofweek(timestamp) == ((timestamp \div TicksPerHour) \div 24) % 7

hour_of(timestamp) == (timestamp \div TicksPerHour) % 24

\* (day_of_week + 1) % 7: Sunday = 0, Saturday = 6.
day_of_week(timestamp) == (dayofweek(timestamp) + 1) % 7

\* No character given: None or the empty string.
NoCharacter == Empty

\* The column of the character if it were Shayne's for either username.
user_char_col_shayne(username, row) == row.shayne_character

\* f"{username.lower()}_character"
user_char_col(username, row) ==
    IF username = Shayne THEN row.shayne_character ELSE row.matt_character

NoHeatmap == [success |-> FALSE, data |-> <<>>]

\* GameDataManager.get_user_heatmap_data: the cells in the order of the two
\* loops, day 0..6 and within a day hour 0..23.
get_user_heatmap_data(file, username, character) ==
    LET loaded == _load_data(file)
        df == IF character # NoCharacter
              THEN SelectSeq(loaded, LAMBDA row : user_char_col(username, row) = character)
              ELSE loaded
        slot_games(day, hour) ==
            {i \in 1..Len(df) : /\ day_of_week(df[i].timestamp) = day
                                /\ hour_of(df[i].timestamp) = hour}
        cell(day, hour) ==
            LET game_count == Cardinality(slot_games(day, hour))
                wins == Cardinality({i \in slot_games(day, hour) :
                                        df[i].winner = username})
            IN [hour |-> hour,
                day |-> day,
                win_rate |-> IF game_count > 0 THEN round1(wins, game_count) ELSE 0,
                game_count |-> game_count]
    IN IF Len(loaded) = 0 \/ Len(df) = 0 THEN NoHeatmap
       ELSE [success |-> TRUE,
             data |-> [k \in 1..(7 * 24) |-> cell((k - 1) \div 24, (k - 1) % 24)],
             total_games |-> Len(df)]

\* GET /api/characters/<character>/heatmap: the two players' heatmaps of the
\* character, combined only if both succeeded.
combined_requires(shayne_result, matt_result) ==
    shayne_result.success /\ matt_result.success

get_character_heatmap(file, character) ==
    LET shayne_result == get_user_heatmap_data(file, Shayne, character)
        matt_result == get_user_heatmap_data(file, Matt, character)
        combined(k) ==
            LET shayne_slot == shayne_result.data[k]
                matt_slot == matt_result.data[k]
                total_games == shayne_slot.game_count + matt_slot.game_count
            IN [hour |-> (k - 1) % 24,
                day |-> (k - 1) \div 24,
                win_rate |->
                    IF total_games > 0
                    THEN round1(shayne_slot.win_rate * shayne_slot.game_count
                                  + matt_slot.win_rate * matt_slot.game_count,
                                1000 * total_games)
                    ELSE 0,
                game_count |-> total_games]
    IN IF combined_requires(shayne_result, matt_result)
       THEN [success |-> TRUE,
             data |-> [k \in 1..(7 * 24) |-> combined(k)],
             total_games |-> shayne_result.total_games + matt_result.total_games]
       ELSE NoHeatmap

\* ------------------------------------------- the statistics endpoints
\* Stores for the statistics: matches one tick apart, won by either player or
\* by neither, with stocks of 2, 3 or unknown, and longer stores around the
\* window and history sizes of the timeline.
MatchRows(ts) ==
    { Row(sc, Falco, w, st, Battlefield, ts, None) :
        sc \in {Fox, Falco}, w \in Players, st \in {None, 2, 3} }
    \cup {Row(Fox, Falco, Luigi, 2, Battlefield, ts, None)}

RECURSIVE MatchStores(_)
MatchStores(n) ==
    IF n = 0 THEN {<<>>}
    ELSE LET S == MatchStores(n - 1)
         IN S \cup { Append(s, r) : s \in {x \in S : Len(x) = n - 1},
                                     r \in MatchRows(n) }

StatsInit ==
    /\ csv \in MatchStores(MaxMatches)
    /\ op = "init"
    /\ request = NoRequest
    /\ result = FALSE
    /\ cli = DefaultCli
    /\ passes = 0
    /\ before = <<>>
    /\ threads = NoThreads

Call(endpoint, arguments, response) ==
    /\ op' = endpoint
    /\ request' = arguments
    /\ result' = response
    /\ UNCHANGED <<csv, cli, passes, before, threads>>

GetStats == Call("get_stats", NoRequest, get_stats(csv))

LegacyGetStats == Call("legacy_get_stats", NoRequest, legacy_get_stats(csv))

GetMatchupMatrix == Call("get_matchup_matrix", NoRequest, get_matchup_matrix(csv))

GetAdvancedMetrics ==
    Call("get_advanced_metrics", NoRequest, get_advanced_metrics(csv))

GetHeadToHeadStats ==
    Call("get_head_to_head_stats", NoRequest, get_head_to_head_stats(csv))

GetUserTearsheet ==
    \E username \in Players :
       Call("get_user_tearsheet", [username |-> username],
            get_user_tearsheet(csv, username))

StatsNext ==
    \/ GetStats
    \/ LegacyGetStats
    \/ GetMatchupMatrix
    \/ GetAdvancedMetrics
    \/ GetHeadToHeadStats
    \/ GetUserTearsheet

SpecStats == StatsInit /\ [][StatsNext]_vars

\* Stores for the timeline: every size up to two windows, and sizes at and
\* beyond the history limit; Shayne wins every second or every third match.
TimelineSizes ==
    (0..(2 * window_games))
    \cup { max_games, max_games + window_games - 1, max_games + window_games }

TimelineStore(n, every) ==
    [i \in 1..n |-> Row(Fox, Falco, IF i % every = 0 THEN Shayne ELSE Matt, 2,
                        Battlefield, i, None)]

TimelineInit ==
    /\ csv \in {TimelineStore(n, every) : n \in TimelineSizes, every \in {2, 3}}
    /\ op = "init"
    /\ request = NoRequest
    /\ result = FALSE
    /\ cli = DefaultCli
    /\ passes = 0
    /\ before = <<>>
    /\ threads = NoThreads

GetUserWinRateTimeline ==
    \E username \in Players :
       Call("get_user_win_rate_timeline", [username |-> username],
            get_user_win_rate_timeline(csv, username))

TimelineNext == GetUserWinRateTimeline

SpecTimeline == TimelineInit /\ [][TimelineNext]_vars

\* ------------------------------------------- stores with larger groups
\* Stores for the best and worst lists: up to two blocks of matches of one
\* pair of characters, each of 1..MaxGroup matches of which Shayne wins the
\* first none, one or all; the first match of a block is on another stage.
FinalDestination == <<"Final", " ", "Destination">>

Block(sc, mc, size, wins, start) ==
    [i \in 1..size |->
       Row(sc, mc, IF i <= wins THEN Shayne ELSE Matt, 2,
           IF i = 1 THEN FinalDestination ELSE Battlefield, start + i, None)]

Blocks(start) ==
    { Block(sc, mc, size, wins, start) :
        sc \in {Fox, Falco}, mc \in {Fox, Falco},
        size \in 1..MaxGroup, wins \in {0, 1, MaxGroup} }

RankStores ==
    {<<>>} \cup Blocks(0)
           \cup { first \o second : first \in Blocks(0), second \in Blocks(MaxGroup) }

RankInit ==
    /\ csv \in RankStores
    /\ op = "init"
    /\ request = NoRequest
    /\ result = FALSE
    /\ cli = DefaultCli
    /\ passes = 0
    /\ before = <<>>
    /\ threads = NoThreads

GetCharacterStats ==
    \E character \in {Fox, Falco} :
       Call("get_character_stats", [character |-> character],
            get_character_stats(csv, character))

RankNext ==
    \/ GetMatchupMatrix
    \/ GetUserTearsheet
    \/ GetCharacterStats

SpecRank == RankInit /\ [][RankNext]_vars

\* ------------------------------------------------- stores for the heatmap
\* Matches at up to MaxHeat of four times: a Monday in the first hour, the
\* same Monday in the last hour, the Sunday after and the Monday after that
\* in the first hour again; in each match one player plays Fox and the other
\* Falco.
HeatTimes ==
    <<1, 23 * TicksPerHour + 1, 6 * 24 * TicksPerHour + 2, 7 * 24 * TicksPerHour + 1>>

HeatRows(ts) ==
    { Row(pair[1], pair[2], w, 2, Battlefield, ts, None) :
        pair \in {<<Fox, Falco>>, <<Falco, Fox>>}, w \in Players }

RECURSIVE HeatStores(_, _)
HeatStores(n, from) ==
    IF n = 0 \/ from > Len(HeatTimes) THEN {<<>>}
    ELSE HeatStores(n, from + 1)
         \cup { <<r>> \o rest : r \in HeatRows(HeatTimes[from]),
                                rest \in HeatStores(n - 1, from + 1) }

HeatInit ==
    /\ csv \in HeatStores(MaxHeat, 1)
    /\ op = "init"
    /\ request = NoRequest
    /\ result = FALSE
    /\ cli = DefaultCli
    /\ passes = 0
    /\ before = <<>>
    /\ threads = NoThreads

GetUserHeatmap ==
    \E username \in Players, character \in {NoCharacter, Fox, Luigi} :
       Call("get_user_heatmap", [username |-> username, character |-> character],
            get_user_heatmap_data(csv, username, character))

GetCharacterHeatmap ==
    \E character \in {Fox, Luigi} :
       Call("get_character_heatmap", [character |-> character],
            get_character_heatmap(csv, character))

HeatNext == GetUserHeatmap \/ GetCharacterHeatmap

SpecHeat == HeatInit /\ [][HeatNext]_vars

\* ------------------------------------------------- stores for the streaks
\* Matches one tick apart won by either player, among them rows without the
\* character of Shayne, as older versions stored them.
StreakRows(ts) ==
    { Row(sc, Falco, w, 2, Battlefield, ts, None) :
        sc \in {Fox, Empty}, w \in Players }

RECURSIVE StreakStores(_)
StreakStores(n) ==
    IF n = 0 THEN {<<>>}
    ELSE LET S == StreakStores(n - 1)
         IN S \cup { Append(s, r) : s \in {x \in S : Len(x) = n - 1},
                                     r \in StreakRows(n) }

StreakInit ==
    /\ csv \in StreakStores(MaxMatches)
    /\ op = "init"
    /\ request = NoRequest
    /\ result = FALSE
    /\ cli = DefaultCli
    /\ passes = 0
    /\ before = <<>>
    /\ threads = NoThreads

GetUserStats ==
    \E username \in Players :
       Call("get_user_stats", [username |-> username],
            get_user_stats(csv, username))

StreakNext ==
    \/ GetStats
    \/ GetHeadToHeadStats
    \/ GetUserTearsheet
    \/ GetUserStats

SpecStreak == StreakInit /\ [][StreakNext]_vars

\* ------------------------------------------------- the current session
\* GET /api/sessions/current at the time now: the session of the most recent
\* match, its games, and whether it is still active.
get_current_session(file, now) ==
    LET df == _load_data(file)
        ordered == sort_values(df)
        last_timestamp == ordered[Len(ordered)].timestamp
        is_active == (now - last_timestamp) < session_gap_hours * TicksPerHour
        session_id == _get_or_create_session_id(file, last_timestamp)
        assigned == _assign_missing_session_ids(df)
        session_games == SelectSeq(assigned, LAMBDA row : row.session_id = session_id)
    IN IF Len(df) = 0
       THEN [success |-> TRUE, session_id |-> None, start_time |-> None,
             game_count |-> 0, is_active |-> FALSE]
       ELSE IF assigned = Raised THEN [success |-> FALSE]
       ELSE [success |-> TRUE,
             session_id |-> session_id,
             start_time |-> IF Len(session_games) > 0
                            THEN session_games[1].timestamp ELSE None,
             game_count |-> Len(session_games),
             is_active |-> is_active]

\* What the clock may have advanced by since the most recent stored match
\* when the current session is asked for: a tick less than the session gap,
\* exactly the gap, or a tick more.
SinceLast == Elapsed \cup { session_gap_hours * TicksPerHour - 1 }

GetCurrentSession ==
    \E d \in SinceLast :
       Call("get_current_session", [now |-> MaxTimestamp(csv) + d],
            get_current_session(csv, MaxTimestamp(csv) + d))

CurrentNext == AddGame \/ GetCurrentSession

SpecCurrent == Init /\ [][CurrentNext]_vars

\* ------------------------------------------- two requests served at once
\* The server handles each request in a thread of its own and the handlers
\* take no lock: between the reads and the writes of the file by one handler
\* the other may read or write it.  A step is one read or one write of the
\* whole file with the computation that follows it.

\* get_sessions, first step: _load_data and _assign_missing_session_ids.  An
\* empty store, and an error, end the call without a save.
SessionsLoad ==
    /\ threads.get_sessions.pc = "idle"
    /\ LET df == _load_data(csv)
           assigned == _assign_missing_session_ids(df)
       IN threads' = [threads EXCEPT !.get_sessions =
             IF Len(df) = 0 \/ assigned = Raised
                \/ \A i \in 1..Len(assigned) : assigned[i].session_id = None
             THEN [pc |-> "done"]
             ELSE [pc |-> "loaded", df |-> assigned]]
    /\ op' = "get_sessions: load"
    /\ UNCHANGED <<csv, request, result, cli, passes, before>>

\* get_sessions, second step: _save_session_ids writes the frame it holds.
SessionsSave ==
    /\ threads.get_sessions.pc = "loaded"
    /\ csv' = threads.get_sessions.df
    /\ threads' = [threads EXCEPT !.get_sessions = [pc |-> "done"]]
    /\ op' = "get_sessions: save"
    /\ UNCHANGED <<request, result, cli, passes, before>>

\* add_game, first step: the validation and _get_or_create_session_id, which
\* reads the file.
AddGameSessionId ==
    /\ threads.add_game.pc = "idle"
    /\ \E game_data \in Submissions, d \in Elapsed :
          /\ Validates(game_data)
          /\ "stocksRemaining" \in DOMAIN game_data
          /\ LET timestamp == MaxTimestamp(csv) + d
             IN threads' = [threads EXCEPT !.add_game =
                   [pc |-> "session_id",
                    game_data |-> game_data,
                    timestamp |-> timestamp,
                    session_id |-> _get_or_create_session_id(csv, timestamp)]]
          /\ request' = game_data
    /\ op' = "add_game: session id"
    /\ before' = csv
    /\ UNCHANGED <<csv, result, cli, passes>>

\* add_game, second step: df = self._load_data().
AddGameLoad ==
    /\ threads.add_game.pc = "session_id"
    /\ threads' = [threads EXCEPT !.add_game =
          [pc |-> "loaded",
           df |-> _load_data(csv),
           new_game |-> new_game(threads.add_game.game_data,
                                 threads.add_game.timestamp,
                                 threads.add_game.session_id)]]
    /\ op' = "add_game: load"
    /\ UNCHANGED <<csv, request, result, cli, passes, before>>

\* add_game, third step: the frame with the new game appended is written and
\* the call returns True.
AddGameSave ==
    /\ threads.add_game.pc = "loaded"
    /\ csv' = Append(threads.add_game.df, threads.add_game.new_game)
    /\ threads' = [threads EXCEPT !.add_game =
          [pc |-> "done", returned |-> TRUE,
           new_game |-> threads.add_game.new_game]]
    /\ result' = TRUE
    /\ op' = "add_game: save"
    /\ UNCHANGED <<request, cli, passes, before>>

RaceNext ==
    \/ SessionsLoad
    \/ SessionsSave
    \/ AddGameSessionId
    \/ AddGameLoad
    \/ AddGameSave

SpecRace == Init /\ [][RaceNext]_vars

\* ------------------------------------------------------------ the claims
Threshold == session_gap_hours * TicksPerHour

Timestamps(file) == [i \in 1..Len(file) |-> file[i].timestamp]

NoIds(file) == \A i \in 1..Len(file) : file[i].session_id = None

AllIds(file) == \A i \in 1..Len(file) : file[i].session_id # None

\* The sessions of a file: the sets of timestamps that share a session id.
SessionGroups(file) ==
    { { file[j].timestamp : j \in {k \in 1..Len(file) :
                                     file[k].session_id = file[i].session_id} } :
      i \in 1..Len(file) }

\* The session id stored on the match of timestamp ts.
SessionOf(file, ts) ==
    (CHOOSE r \in {file[i] : i \in 1..Len(file)} : r.timestamp = ts).session_id

\* A full pass of the app or of migrate_sessions.py over a store without ids.
FullPass ==
    /\ passes >= 1
    /\ \/ cli.tool = "app" /\ NoIds(before)
       \/ cli.tool = "migrate"

\* C1: in a full segmentation pass over matches in timestamp order, the first
\* match gets a session and every later match starts a new session (its id
\* differs from its predecessor's) exactly when its gap to the predecessor is
\* strictly greater than 4 hours; matches at hours 0, 1, 2, 10, 11 make the two
\* sessions {0, 1, 2} and {10, 11}.
C1_FullPassBoundaries ==
    FullPass =>
       /\ Timestamps(csv) = Timestamps(before)
       /\ AllIds(csv)
       /\ \A i \in 2..Len(csv) :
             (csv[i].session_id # csv[i - 1].session_id)
                <=> (csv[i].timestamp - csv[i - 1].timestamp > Threshold)
       /\ Timestamps(csv) = Timestamps(ExampleStore) =>
             SessionGroups(csv) =
                { {0, TicksPerHour, 2 * TicksPerHour},
                  {10 * TicksPerHour, 11 * TicksPerHour} }

C1_Witness ==
    /\ FullPass
    /\ cli.tool = "app"
    /\ Timestamps(csv) = Timestamps(ExampleStore)
    /\ Cardinality(SessionGroups(csv)) = 2

\* C2: a match appended by add_game within the gap threshold of the most
\* recent stored match has, after a following get_sessions, the session id of
\* that most recent match.
C2_WithinGapJoinsSession ==
    (op = "add_game" /\ result /\ _load_data(before) # <<>>) =>
       LET loaded == sort_values(_load_data(before))
           prev == loaded[Len(loaded)]
           new == csv[Len(csv)]
           after == SavedBySessions(csv)
       IN (new.timestamp - prev.timestamp <= Threshold) =>
             SessionOf(after, new.timestamp) = SessionOf(after, prev.timestamp)

\* C3: a match whose gap to the most recent match exceeds the threshold gets a
\* session id distinct from that match's, whatever positive threshold the
\* segmenter runs with.
C3_BeyondGapNewSession ==
    (passes >= 1 /\ cli.tool = "fix" /\ Len(csv) >= 2) =>
       LET n == Len(csv)
       IN (/\ before[n].session_id = None
           /\ csv[n].timestamp - csv[n - 1].timestamp > cli.gap)
             => csv[n].session_id # csv[n - 1].session_id

\* C4: a second segmentation pass by the same tool over the same records
\* leaves every session id, and so every boundary, as the first pass left it.
C4_Idempotent == passes >= 2 => csv = before

C4_Witness ==
    /\ passes = 2
    /\ Len(csv) >= 3
    /\ Cardinality(SessionGroups(csv)) >= 2

\* C5: a segmentation run in fill-missing mode leaves the session id of every
\* match that already had one exactly as it was.
C5_AssignedIdsKept ==
    op \in {"get_sessions", "fix"} =>
       \A i \in 1..Len(before), j \in 1..Len(csv) :
          (before[i].timestamp = csv[j].timestamp /\ before[i].session_id # None)
             => csv[j].session_id = before[i].session_id

C5_Witness ==
    /\ op = "get_sessions"
    /\ \E i \in 1..Len(before) : before[i].session_id # None
    /\ \E i \in 1..Len(before) : before[i].session_id = None
    /\ AllIds(csv)
    /\ Len(csv) = Len(before)

\* C6: the session id stored on a match is the id a segmentation from scratch,
\* from the timestamps alone, gives it.
C6_Rederivable ==
    LET scratch == migrate_assign_session_ids(csv)
    IN \A i \in 1..Len(csv) :
          csv[i].session_id # None =>
             csv[i].session_id = SessionOf(scratch, csv[i].timestamp)

\* C7: after get_sessions the matches of one session id are a maximal run:
\* consecutive matches share the id exactly when their gap is at most the
\* threshold, and no id comes back after another id.
C7_MaximalRuns ==
    (op = "get_sessions" /\ _load_data(csv) # <<>>) =>
       /\ \A i \in 2..Len(csv) :
             (csv[i].session_id = csv[i - 1].session_id)
                <=> (csv[i].timestamp - csv[i - 1].timestamp <= Threshold)
       /\ \A i, j, k \in 1..Len(csv) :
             (i < j /\ j < k /\ csv[i].session_id = csv[k].session_id)
                => csv[j].session_id = csv[i].session_id

\* The first match of the session of match i: the start of the maximal run of
\* gaps of at most the threshold that i lies in (rows in timestamp order).
RECURSIVE RunStart(_, _)
RunStart(rows, i) ==
    IF i = 1 THEN 1
    ELSE IF rows[i].timestamp - rows[i - 1].timestamp > Threshold THEN i
    ELSE RunStart(rows, i - 1)

\* C8: an assigned session id is the hour of the first match of the session,
\* whether add_game or the segmentation pass assigned it.
C8_IdOfFirstMatch ==
    LET rows == sort_values(_load_data(csv))
    IN \A i \in 1..Len(rows) :
          rows[i].session_id # None =>
             rows[i].session_id
                = _generate_session_id(rows[RunStart(rows, i)].timestamp)

\* A row without its derived session id.
Logged(r) == [r EXCEPT !.session_id = None]

Contents(file) == [i \in 1..Len(file) |-> Logged(file[i])]

RECURSIVE IsSubsequence(_, _)
IsSubsequence(a, b) ==
    IF a = <<>> THEN TRUE
    ELSE IF b = <<>> THEN FALSE
    ELSE IF Head(a) = Head(b) THEN IsSubsequence(Tail(a), Tail(b))
    ELSE IsSubsequence(a, Tail(b))

\* C9: add_game and get_sessions keep every stored record, with its
\* characters, winner, stocks, stage and timestamp and in its storage order;
\* a successful add_game only adds one record at the end.
C9_AppendOnly ==
    /\ op \in {"add_game", "get_sessions"} =>
          IsSubsequence(Contents(before), Contents(csv))
    /\ (op = "add_game" /\ result) =>
          /\ Len(csv) = Len(before) + 1
          /\ SubSeq(Contents(csv), 1, Len(before)) = Contents(before)

\* A required field that is missing or empty once white space is trimmed.
MissingOrBlank(game_data) ==
    \E field \in RequiredFields :
       field \notin DOMAIN game_data \/ strip(game_data[field]) = Empty

\* C10: add_game fails and leaves the store as it was when a character, the
\* winner or the stage is missing or empty after trimming.
C10_BlankRejected ==
    (op = "add_game" /\ MissingOrBlank(request)) =>
       (~result /\ csv = before)

Identities == {Shayne, Matt}

\* C11: add_game fails when the winner is not one of the two identities, so
\* the winner of every stored record is one of the two identities.
C11_WinnerIsIdentity ==
    /\ (op = "add_game" /\ "winner" \in DOMAIN request
                        /\ request["winner"] \notin Identities) => ~result
    /\ (op = "add_game" /\ result) => csv[Len(csv)].winner \in Identities

\* C12: add_game of an otherwise valid submission fails when stocksRemaining
\* is a number below zero, and succeeds with the stocks of the new record
\* unknown when stocksRemaining is absent or null.
C12_StocksChecked ==
    (op = "add_game" /\ ~MissingOrBlank(request)) =>
       IF "stocksRemaining" \notin DOMAIN request
       THEN result /\ csv[Len(csv)].stocks_remaining = None
       ELSE IF request["stocksRemaining"] = None
            THEN result /\ csv[Len(csv)].stocks_remaining = None
            ELSE request["stocksRemaining"] < 0 => (~result /\ csv = before)

\* A submission with both characters, an identity as winner, a stage and a
\* stocks value that is null or not below zero.
ValidMatch(game_data) ==
    /\ ~MissingOrBlank(game_data)
    /\ game_data["winner"] \in Identities
    /\ "stocksRemaining" \in DOMAIN game_data
    /\ game_data["stocksRemaining"] >= None

Other(X) == IF X = Shayne THEN Matt ELSE Shayne

StatsWins(stats, X) == IF X = Shayne THEN stats.shayne_wins ELSE stats.matt_wins

\* C13: after a successful add_game of a valid match won by X, get_stats
\* reports one game more and one win more for X and the same wins for the
\* other identity as before it, and so does X's tearsheet (a first game makes
\* the tearsheet 1 game, 1 win, 0 losses).
C13_StatsCountTheWin ==
    (op = "add_game" /\ result /\ ValidMatch(request)) =>
       LET X == request["winner"]
           old == get_stats(before)
           new == get_stats(csv)
           old_sheet == get_user_tearsheet(before, X)
           new_sheet == get_user_tearsheet(csv, X)
       IN /\ new.total_games = old.total_games + 1
          /\ StatsWins(new, X) = StatsWins(old, X) + 1
          /\ StatsWins(new, Other(X)) = StatsWins(old, Other(X))
          /\ new_sheet.success
          /\ IF old_sheet.success
             THEN /\ new_sheet.total_games = old_sheet.total_games + 1
                  /\ new_sheet.wins = old_sheet.wins + 1
                  /\ new_sheet.losses = old_sheet.losses
             ELSE /\ new_sheet.total_games = 1
                  /\ new_sheet.wins = 1
                  /\ new_sheet.losses = 0

C13_Witness ==
    /\ op = "add_game" /\ result /\ ValidMatch(request)
    /\ request["winner"] = Matt
    /\ request["stocksRemaining"] = None
    /\ get_stats(before).shayne_wins >= 1
    /\ get_stats(csv).matt_wins >= 1
    /\ Len(before) > Len(_load_data(before))

IdentityWinners(file) ==
    \A i \in 1..Len(file) : file[i].winner \in Identities

\* Two rates in tenths of a percent that sum to 100.0 within 0.1.
SumTo100(a, b) == a + b >= 999 /\ a + b <= 1001

\* C14: over a non-empty match set whose winners are all identities the two
\* win rates sum to 100.0 within 0.1, in get_stats (of both apps) and in every
\* entry of the matchup matrix.
C14_WinRatesSumTo100 ==
    (_load_data(csv) # <<>> /\ IdentityWinners(csv)) =>
       /\ op \in {"get_stats", "legacy_get_stats"} =>
             SumTo100(result.shayne_win_rate, result.matt_win_rate)
       /\ op = "get_matchup_matrix" =>
             \A key \in DOMAIN result.matrix :
                SumTo100(result.matrix[key].shayne_win_rate,
                         result.matrix[key].matt_win_rate)

C14_Witness ==
    /\ op = "get_matchup_matrix"
    /\ result.success
    /\ IdentityWinners(csv)
    /\ \E key \in DOMAIN result.matrix :
          /\ result.matrix[key].total_games = 3
          /\ result.matrix[key].shayne_win_rate = 333
          /\ result.matrix[key].matt_win_rate = 667

\* The number of matches at the end of df won by the winner of the last one.
TrailingRun(df) ==
    LET n == Len(df)
        others == {i \in 1..n : df[i].winner # df[n].winner}
    IN IF others = {} THEN n
       ELSE n - (CHOOSE i \in others : \A j \in others : j <= i)

\* C15: get_stats reports no current streak exactly when there is no match;
\* otherwise the streak's player is the winner of the most recent match and
\* its length the number of matches that player won in a row up to it.
C15_CurrentStreak ==
    /\ op = "get_stats" =>
          LET df == sort_values(_load_data(csv))
          IN /\ (result.current_streak = NoStreak) <=> (Len(df) = 0)
             /\ Len(df) > 0 =>
                   /\ result.current_streak.player = df[Len(df)].winner
                   /\ result.current_streak.length = TrailingRun(df)
    /\ op = "legacy_get_stats" =>
          LET df == sort_values(csv)
          IN /\ ("current_streak" \notin DOMAIN result) <=> (Len(df) = 0)
             /\ Len(df) > 0 =>
                   /\ result.current_streak.player = df[Len(df)].winner
                   /\ result.current_streak.length = TrailingRun(df)

Min(a, b) == IF a < b THEN a ELSE b

RECURSIVE SumTotalGames(_, _)
SumTotalGames(matrix, keys) ==
    IF keys = {} THEN 0
    ELSE LET key == CHOOSE k \in keys : TRUE
         IN matrix[key].total_games + SumTotalGames(matrix, keys \ {key})

\* C17: in the matchup matrix the total_games of all entries add up to the
\* number of matches, and in every entry shayne_wins + matt_wins is its
\* total_games.
C17_MatrixReconciles ==
    (op = "get_matchup_matrix" /\ result.success) =>
       /\ SumTotalGames(result.matrix, DOMAIN result.matrix)
             = Len(_load_data(csv))
       /\ \A key \in DOMAIN result.matrix :
             result.matrix[key].shayne_wins + result.matrix[key].matt_wins
                = result.matrix[key].total_games

C17_Witness ==
    /\ op = "get_matchup_matrix"
    /\ result.success
    /\ Len(csv) = 3
    /\ Cardinality(DOMAIN result.matrix) = 2
    /\ ~IdentityWinners(csv)

\* The wins of a player whose stocks are known.
KnownStockWins(df, player) ==
    Cardinality({i \in 1..Len(df) :
                   df[i].winner = player /\ df[i].stocks_remaining # None})

\* C18: the two-stock and three-stock rates of a player are the wins with 2
\* (with 3) stocks over the wins with known stocks, in the advanced metrics
\* and in the tearsheet.
C18_DominanceOverKnownStocks ==
    LET df == _load_data(csv)
    IN /\ (op = "get_advanced_metrics" /\ result.success) =>
             \A player \in Identities :
                KnownStockWins(df, player) > 0 =>
                   /\ result.two_stock_wins[player].two_stock_rate
                         = round1(StockWins(df, player, 2),
                                  KnownStockWins(df, player))
                   /\ result.dominance_factor[player].dominance_rate
                         = round1(StockWins(df, player, 3),
                                  KnownStockWins(df, player))
       /\ (op = "get_user_tearsheet" /\ result.success) =>
             \/ KnownStockWins(df, request.username) = 0
             \/ result.two_stock_rate
                   = round1(StockWins(df, request.username, 2),
                            KnownStockWins(df, request.username))

\* The longest run of consecutive rows of df won by player.
MaxRun(df, player) ==
    LET runs == {<<i, j>> \in (1..Len(df)) \X (1..Len(df)) :
                   i <= j /\ \A k \in i..j : df[k].winner = player}
    IN IF runs = {} THEN 0
       ELSE LET longest == CHOOSE r \in runs :
                              \A q \in runs : q[2] - q[1] <= r[2] - r[1]
            IN longest[2] - longest[1] + 1

\* C20: the longest win streak that the head-to-head statistics and the
\* tearsheet report for an identity is the length of the longest run of
\* consecutive matches it won, the run that ends at the last match included,
\* and 0 if it never won.
C20_LongestWinStreak ==
    LET df == sort_values(_load_data(csv))
    IN /\ (op = "get_head_to_head_stats" /\ result.success) =>
             \A player \in Identities :
                result.longest_win_streaks[player] = MaxRun(df, player)
       /\ (op = "get_user_tearsheet" /\ result.success) =>
             result.max_win_streak = MaxRun(df, request.username)

C20_Witness ==
    /\ op = "get_head_to_head_stats"
    /\ result.success
    /\ Len(csv) = 3
    /\ csv[1].winner = Matt /\ csv[2].winner = Shayne /\ csv[3].winner = Shayne
    /\ result.longest_win_streaks[Shayne] = 2
    /\ result.longest_win_streaks[Matt] = 1

\* The rows whose timestamp is a number.
Numeric(file) == SelectSeq(file, Parseable)

\* The rows without a number for a timestamp that carry a session id.
CorruptInSession(file) ==
    {i \in 1..Len(file) :
       file[i].timestamp = Corrupt /\ file[i].session_id # None}

\* C19: a segmentation pass over a store with corrupt timestamps gives every
\* record with a numeric timestamp the session id that the same pass gives it
\* when the corrupt records are absent, loses none of these records, and puts
\* no record with a corrupt timestamp into a session.
C19_CorruptTimestampsSkipped ==
    passes >= 1 =>
       LET clean == Numeric(before)
           alone == IF cli.tool = "app" THEN SavedBySessions(clean)
                    ELSE assign_session_ids(clean, cli.overwrite, cli.gap)
       IN /\ {csv[i].timestamp : i \in 1..Len(csv)} \ {Corrupt}
                = {clean[i].timestamp : i \in 1..Len(clean)}
          /\ \A i \in 1..Len(csv) :
                csv[i].timestamp # Corrupt =>
                   csv[i].session_id = SessionOf(alone, csv[i].timestamp)
          /\ Cardinality(CorruptInSession(csv))
                <= Cardinality(CorruptInSession(before))

Listed(items) == {items[i] : i \in 1..Len(items)}

\* The number of stored matches of a pair of characters, of a user against an
\* opponent's character, and of a character on a stage.
GamesOfPair(sc, mc) ==
    Cardinality({i \in 1..Len(csv) : /\ csv[i].shayne_character = sc
                                     /\ csv[i].matt_character = mc})

GamesAgainst(username, char) ==
    Cardinality({i \in 1..Len(csv) :
        (IF username = Shayne THEN csv[i].matt_character
         ELSE csv[i].shayne_character) = char})


GamesOnStage(character, stage) ==
    Cardinality({i \in 1..Len(csv) :
        /\ csv[i].stage = stage
        /\ \/ csv[i].shayne_character = character
           \/ csv[i].matt_character = character})

\* C21: a best or worst list only holds groups that reach the minimum number
\* of games: 5 for the lists of the matchup matrix and of a user's tearsheet,
\* 3 for the matchups of a character and 2 for its stages.
C21_ListsNeedMinimumGames ==
    /\ (op = "get_matchup_matrix" /\ result.success) =>
          \A m \in Listed(result.best_matchups.shayne)
                   \cup Listed(result.best_matchups.matt)
                   \cup Listed(result.worst_matchups.shayne)
                   \cup Listed(result.worst_matchups.matt) :
             /\ m.total_games >= 5
             /\ m.total_games = GamesOfPair(m.shayne_character, m.matt_character)
    /\ (op = "get_user_tearsheet" /\ result.success) =>
          \A m \in Listed(result.best_matchups) \cup Listed(result.worst_matchups) :
             /\ m.games >= 5
             /\ m.games = GamesAgainst(request.username, m.opponent_character)
    /\ (op = "get_character_stats" /\ result.success) =>
          /\ \A m \in Listed(result.best_matchups) \cup Listed(result.worst_matchups) :
                /\ m.games >= 3
                /\ \/ GamesOfPair(request.character, m.opponent) >= 3
                   \/ GamesOfPair(m.opponent, request.character) >= 3
          /\ \A e \in Listed(result.stage_performance) :
                /\ e.games >= 2
                /\ e.games = GamesOnStage(request.character, e.stage)

\* A tearsheet that lists one opponent's character and leaves out another
\* that was met in fewer games.
C21_Witness ==
    /\ op = "get_user_tearsheet"
    /\ result.success
    /\ Len(result.best_matchups) = 1
    /\ Len(result.worst_matchups) = 1
    /\ \E i \in 1..Len(csv) :
          GamesAgainst(request.username,
                       IF request.username = Shayne THEN csv[i].matt_character
                       ELSE csv[i].shayne_character) \in 1..4


\* The place of a character's name, and of a matchup's key, in alphabetical
\* order.
NameRank(name) == CHOOSE k \in 1..Len(CharacterNames) : CharacterNames[k] = name

KeyRank(m) ==
    NameRank(m.shayne_character) * (Len(CharacterNames) + 1) + NameRank(m.matt_character)

\* A list is in the order of (win rate, count, key): by win rate, descending
\* in a best list and ascending in a worst list, then the higher count first,
\* then the smaller key first.
InRankOrder(items, rate(_), count(_), key(_), best) ==
    \A i, j \in 1..Len(items) :
       i < j =>
          \/ IF best THEN rate(items[i]) > rate(items[j])
             ELSE rate(items[i]) < rate(items[j])
          \/ /\ rate(items[i]) = rate(items[j])
             /\ \/ count(items[i]) > count(items[j])
                \/ /\ count(items[i]) = count(items[j])
                   /\ key(items[i]) <= key(items[j])

MatrixOrdered ==
    (op = "get_matchup_matrix" /\ result.success) =>
       /\ InRankOrder(result.best_matchups.shayne, LAMBDA m : m.shayne_win_rate,
                      LAMBDA m : m.total_games, KeyRank, TRUE)
       /\ InRankOrder(result.best_matchups.matt, LAMBDA m : m.matt_win_rate,
                      LAMBDA m : m.total_games, KeyRank, TRUE)
       /\ InRankOrder(result.worst_matchups.shayne, LAMBDA m : m.shayne_win_rate,
                      LAMBDA m : m.total_games, KeyRank, FALSE)
       /\ InRankOrder(result.worst_matchups.matt, LAMBDA m : m.matt_win_rate,
                      LAMBDA m : m.total_games, KeyRank, FALSE)

TearsheetOrdered ==
    (op = "get_user_tearsheet" /\ result.success) =>
       /\ InRankOrder(result.best_matchups, LAMBDA m : m.win_rate, LAMBDA m : m.games,
                      LAMBDA m : NameRank(m.opponent_character), TRUE)
       /\ InRankOrder(result.worst_matchups, LAMBDA m : m.win_rate, LAMBDA m : m.games,
                      LAMBDA m : NameRank(m.opponent_character), FALSE)

CharacterStatsOrdered ==
    (op = "get_character_stats" /\ result.success) =>
       /\ InRankOrder(result.best_matchups, LAMBDA m : m.win_rate, LAMBDA m : m.games,
                      LAMBDA m : NameRank(m.opponent), TRUE)
       /\ InRankOrder(result.worst_matchups, LAMBDA m : m.win_rate, LAMBDA m : m.games,
                      LAMBDA m : NameRank(m.opponent), FALSE)

\* C22: a best list is in descending and a worst list in ascending order of
\* win rate; entries of equal win rate have the higher game count first and,
\* at equal counts, the alphabetically smaller key first.
C22_ListsRankOrdered ==
    /\ MatrixOrdered
    /\ TearsheetOrdered
    /\ CharacterStatsOrdered

\* The stored matches a heatmap request considers: all of them, or those in
\* which the user played the character.
Considered ==
    {i \in 1..Len(csv) :
        \/ request.character = NoCharacter
        \/ (IF request.username = Shayne THEN csv[i].shayne_character
            ELSE csv[i].matt_character) = request.character}

\* The sum of the cells' game_count: one pair for each counted game.
SumGameCount(data) ==
    Cardinality(UNION { {k} \X (1..data[k].game_count) : k \in 1..Len(data) })

Slots == (0..6) \X (0..23)

\* The 168 cells, one for each day and hour, whose counts add up to the
\* matches considered, each empty cell with rate 0 and each other cell with
\* the user's wins in the cell / game_count * 100 to one decimal.
HeatmapGrid ==
    /\ Len(result.data) = 168
    /\ \A slot \in Slots :
          Cardinality({k \in 1..Len(result.data) :
              /\ result.data[k].day = slot[1]
              /\ result.data[k].hour = slot[2]}) = 1
    /\ SumGameCount(result.data) = Cardinality(Considered)
    /\ \A k \in 1..Len(result.data) :
          LET c == result.data[k]
              wins == Cardinality({i \in Considered :
                          /\ day_of_week(csv[i].timestamp) = c.day
                          /\ hour_of(csv[i].timestamp) = c.hour
                          /\ csv[i].winner = request.username})
          IN IF c.game_count = 0 THEN c.win_rate = 0
             ELSE /\ 2 * (c.win_rate * c.game_count - wins * 1000) <= c.game_count
                  /\ 2 * (wins * 1000 - c.win_rate * c.game_count) <= c.game_count

\* C23 as stated: the heatmap of an identity always has the 168 cells.
C23_HeatmapAlways168 ==
    op = "get_user_heatmap" => HeatmapGrid

\* C23 as amended: the heatmap of an identity has the 168 cells whenever at
\* least one match is considered; with none it reports failure and no cells.
C23_Heatmap168WhenMatches ==
    op = "get_user_heatmap" =>
       IF Considered # {} THEN result.success /\ HeatmapGrid
       ELSE ~result.success /\ result.data = <<>>

\* A heatmap of a character's matches with two matches in one cell, a week
\* apart, one of them won, while another stored match is left out.
C23_Witness ==
    /\ op = "get_user_heatmap"
    /\ result.success
    /\ request.character # NoCharacter
    /\ Cardinality(Considered) < Len(csv)
    /\ \E k \in 1..Len(result.data) :
          result.data[k].game_count = 2 /\ result.data[k].win_rate = 500

\* The stored matches in which a player used the requested character.
UsedBy(player) ==
    {i \in 1..Len(csv) :
        (IF player = Shayne THEN csv[i].shayne_character
         ELSE csv[i].matt_character) = request.character}

\* C29: the combined heatmap of a character is a successful grid of 168
\* cells whenever a player has a match with the character, each cell counting
\* the two players' matches of the cell; there is no data only when neither
\* player used the character.
C29_CombinedHeatmap ==
    op = "get_character_heatmap" =>
       IF UsedBy(Shayne) \cup UsedBy(Matt) # {}
       THEN /\ result.success
            /\ Len(result.data) = 168
            /\ \A k \in 1..Len(result.data) :
                  result.data[k].game_count =
                     Cardinality({<<player, i>> \in Players \X (1..Len(csv)) :
                         /\ i \in UsedBy(player)
                         /\ day_of_week(csv[i].timestamp) = result.data[k].day
                         /\ hour_of(csv[i].timestamp) = result.data[k].hour})
       ELSE ~result.success

\* The matches, in chronological order, that follow a match the player won,
\* and those that follow a match the player did not win.
Chronological == sort_values(_load_data(csv))

AfterWin(player) ==
    {i \in 2..Len(Chronological) : Chronological[i - 1].winner = player}

AfterLoss(player) ==
    {i \in 2..Len(Chronological) : Chronological[i - 1].winner # player}

WonOf(matches, player) ==
    Cardinality({i \in matches : Chronological[i].winner = player})

RateOf(count, total) == IF total = 0 THEN 0 ELSE round1(count, total)

\* C24: the momentum of a player is the share of wins among the matches that
\* follow a win of the player, and among those that follow a loss, each 0
\* when there is no such match; the scan counts every match but the first
\* in exactly one of the two denominators.
C24_Momentum ==
    (op = "get_advanced_metrics" /\ result.success) =>
       \A player \in Players :
          LET scan == momentum_scan(Chronological, player, Len(Chronological))
          IN /\ result.momentum_analysis[player].win_after_win =
                   RateOf(WonOf(AfterWin(player), player),
                          Cardinality(AfterWin(player)))
             /\ result.momentum_analysis[player].win_after_loss =
                   RateOf(WonOf(AfterLoss(player), player),
                          Cardinality(AfterLoss(player)))
             /\ scan.games_after_win = Cardinality(AfterWin(player))
             /\ scan.games_after_loss = Cardinality(AfterLoss(player))
             /\ scan.games_after_win + scan.games_after_loss
                   = Len(Chronological) - 1

\* Three matches of which Shayne wins the first and the last: one match
\* after a win, lost, and one after a loss, won.
C24_Witness ==
    /\ op = "get_advanced_metrics"
    /\ result.success
    /\ Len(csv) = 3
    /\ Cardinality(AfterWin(Shayne)) = 1
    /\ Cardinality(AfterLoss(Shayne)) = 1
    /\ result.momentum_analysis[Shayne].win_after_win = 0
    /\ result.momentum_analysis[Shayne].win_after_loss = 1000

\* C25: get_sessions loses no write: when a get_sessions and an add_game
\* served at once have both finished, the match of an add_game that returned
\* success is in the store.
C25_NoLostWrite ==
    (/\ threads.get_sessions.pc = "done"
     /\ threads.add_game.pc = "done"
     /\ threads.add_game.returned) =>
       \E i \in 1..Len(csv) :
          /\ csv[i].timestamp = threads.add_game.new_game.timestamp
          /\ csv[i].winner = threads.add_game.new_game.winner

\* C26: the sessions get_sessions returns partition the loaded matches:
\* each match is in exactly one listed session, the sessions' total_games
\* add up to the number of matches, and a session's wins of the two players
\* add up to its total_games when every winner is one of the two.
C26_SessionsPartition ==
    op = "get_sessions" =>
       LET loaded == _load_data(before)
           saved == _load_data(csv)
       IN /\ Len(saved) = Len(loaded)
          /\ \A i \in 1..Len(saved) :
                Cardinality({k \in 1..Len(result) :
                    result[k].session_id = saved[i].session_id}) = 1
          /\ \A k \in 1..Len(result) :
                result[k].total_games =
                   Cardinality({i \in 1..Len(saved) :
                       saved[i].session_id = result[k].session_id})
          /\ Cardinality(UNION { {k} \X (1..result[k].total_games) :
                                   k \in 1..Len(result) }) = Len(loaded)
          /\ (\A i \in 1..Len(loaded) : loaded[i].winner \in Players) =>
                \A k \in 1..Len(result) :
                   result[k].shayne_wins + result[k].matt_wins
                      = result[k].total_games

\* Two sessions listed for three matches, one of them of two matches.
C26_Witness ==
    /\ op = "get_sessions"
    /\ Len(_load_data(before)) = 3
    /\ Len(result) = 2
    /\ \E k \in 1..Len(result) : result[k].total_games = 2
    /\ \A i \in 1..Len(csv) : csv[i].winner \in Players

\* C27: the current session is reported active exactly when a match logged
\* at that time would be put into it, also when the time since the last
\* match is exactly the session gap.
C27_ActiveIffWouldJoin ==
    (op = "get_current_session" /\ result.success /\ _load_data(csv) # <<>>) =>
       (result.is_active
           <=> _get_or_create_session_id(csv, request.now) = result.session_id)

\* The holder of a streak reported as a win or a loss streak of a user.
HolderOf(username, type) == IF type = "win" THEN username ELSE Other(username)

\* The current streak as each computation reports it for the store: the
\* holder and the length.
StreakOfStats == 
    <<get_stats(csv).current_streak.player, get_stats(csv).current_streak.length>>

StreakOfHeadToHead ==
    <<get_head_to_head_stats(csv).current_streak.player,
      get_head_to_head_stats(csv).current_streak.length>>

StreakOfTearsheet(username) ==
    LET streak == get_user_tearsheet(csv, username).current_streak
    IN <<HolderOf(username, streak.type), streak.count>>

StreakOfUserStats(username) ==
    LET streak == get_user_stats(csv, username).currentStreak
    IN <<HolderOf(username, streak.type), streak.count>>

\* The stores that are a sequence of at least one match: every row has the
\* two characters and one of the two players as its winner.
MatchSequence ==
    /\ csv # <<>>
    /\ \A i \in 1..Len(csv) : HasCharacters(csv[i]) /\ csv[i].winner \in Players

C30_StocksStoredAsSubmitted ==
    (op = "add_game" /\ result) =>
       /\ csv[Len(csv)].stocks_remaining = request["stocksRemaining"]
       /\ request["stocksRemaining"] = 0 => csv[Len(csv)].stocks_remaining # None

====
